---- MODULE Spec2Model ----
(***************************************************************************)
(* Model of setinfo.py: the routines that look inside a CPython set and    *)
(* reconstruct the probe sequence of a key (probe_steps, _probe_steps,     *)
(* probe_all_steps, PySetObject.slot_of / slot_map).                       *)
(*                                                                         *)
(* The set object itself is the interpreter's: its insertion, removal and  *)
(* resize are modelled after CPython's setobject.c of the releases whose   *)
(* memory layout the ctypes Structures of setinfo.py describe (entry =     *)
(* hash, key; dummy = a string), i.e. the perturbed open addressing        *)
(* i = 5*i + perturb + 1.                                                  *)
(***************************************************************************)
EXTENDS Integers, Sequences, FiniteSets

\* ---------------------------------------------------------------- bounds

\* Longest key list handed to an entry point.
MaxKeys == 6

\* Cap on the length of `slots` inside _probe_steps (the loop itself has none).
MaxPath == 11

\* The keys the entry points are called with: small non-negative integers,
\* several of them sharing slot 1 or slot 0 of an 8-slot table, and 1 and 33
\* sharing slot 1 of a 32-slot table.
KeyUniverse == {0, 1, 2, 8, 9, 17, 33}

\* ------------------------------------------------- pointers and constants

\* A null C pointer in a key field (reading it raises ValueError).
NULL == -1

\* The interpreter's dummy key, left behind in a slot by a removal.
dummy == -2

\* The Python object None, the key of an obstacle entry.
None == -3

\* Smallest table of a set, and the table every new set starts with.
PySet_MINSIZE == 8

\* Bits dropped from perturb per probe.
PERTURB_SHIFT == 5

\* hash(key) for the keys of the model: a small int hashes to itself,
\* except -1, which hashes to -2.
hash(key) == IF key = -1 THEN -2 ELSE key

RECURSIVE BitAnd(_, _)
\* a & b on non-negative integers.
BitAnd(a, b) ==
    IF a = 0 \/ b = 0 THEN 0
    ELSE (a % 2) * (b % 2) + 2 * BitAnd(a \div 2, b \div 2)

RECURSIVE Pow2(_)
Pow2(n) == IF n = 0 THEN 1 ELSE 2 * Pow2(n - 1)

\* x >> n on non-negative integers.
ShiftRight(x, n) == x \div Pow2(n)

\* setentry(hash, key)
setentry(h, k) == [hash |-> h, key |-> k]

\* An entry that was never used.
EmptyEntry == setentry(0, NULL)

\* PySetObject.__len__: the number of entry slots.
len(o) == o.mask + 1

\* A new, empty set object.
NewSet ==
    [fill |-> 0, used |-> 0, mask |-> PySet_MINSIZE - 1,
     table |-> [i \in 0 .. PySet_MINSIZE - 1 |-> EmptyEntry]]

\* ------------------------------------------------------- the set object

\* The next probe index.  The interpreter keeps i unmasked in a size_t and
\* masks on use; the table size divides 2^64, so reducing i to the table
\* size here gives the same sequence of slots.
NextProbe(i, perturb, mask) == (i * 4 + i + perturb + 1) % (mask + 1)

\* startkey == key, the rich comparison of a stored key with `key`: the
\* keys are ints, and None (an obstacle's key) equals no int.
PyEq(a, b) == a = b

RECURSIVE LookLoop(_, _, _, _, _, _)
\* The probing loop of set_lookkey; freeslot = -1 stands for no free slot.
LookLoop(o, key, h, i, perturb, freeslot) ==
    LET j == NextProbe(i, perturb, o.mask)
        e == o.table[j]
    IN  IF e.key = NULL THEN (IF freeslot # -1 THEN freeslot ELSE j)
        ELSE IF e.key = key THEN j
        ELSE IF e.hash = h /\ e.key # dummy /\ PyEq(e.key, key) THEN j
        ELSE LookLoop(o, key, h, j, ShiftRight(perturb, PERTURB_SHIFT),
                      IF e.key = dummy /\ freeslot = -1 THEN j ELSE freeslot)

\* set_lookkey: the slot where `key` is, or where it is to be put.
set_lookkey(o, key, h) ==
    LET i == BitAnd(h, o.mask)
        e == o.table[i]
    IN  IF e.key = NULL \/ e.key = key THEN i
        ELSE IF e.key # dummy /\ e.hash = h /\ PyEq(e.key, key) THEN i
        ELSE LookLoop(o, key, h, i, h, IF e.key = dummy THEN i ELSE -1)

\* set_insert_key
set_insert_key(o, key, h) ==
    LET i == set_lookkey(o, key, h)
        e == o.table[i]
    IN  IF e.key = NULL
        THEN [o EXCEPT !.fill = @ + 1, !.used = @ + 1,
                       !.table[i] = setentry(h, key)]
        ELSE IF e.key = dummy
        THEN [o EXCEPT !.used = @ + 1, !.table[i] = setentry(h, key)]
        ELSE o

RECURSIVE CleanSlot(_, _, _, _)
\* The probing loop of set_insert_clean: the first slot with a null key.
CleanSlot(table, mask, i, perturb) ==
    IF table[i].key = NULL THEN i
    ELSE CleanSlot(table, mask, NextProbe(i, perturb, mask),
                   ShiftRight(perturb, PERTURB_SHIFT))

RECURSIVE NewSize(_, _)
\* The table size set_table_resize picks: the first power of two, from
\* PySet_MINSIZE up, that is greater than minused.
NewSize(n, minused) == IF n <= minused THEN NewSize(2 * n, minused) ELSE n

RECURSIVE Reinsert(_, _, _)
\* set_table_resize's copy loop: the active entries of the old table, in
\* slot order, put into the new one with set_insert_clean.
Reinsert(old, i, new) ==
    IF i > old.mask THEN new
    ELSE LET e == old.table[i]
         IN  IF e.key = NULL \/ e.key = dummy THEN Reinsert(old, i + 1, new)
             ELSE LET j == CleanSlot(new.table, new.mask,
                                     BitAnd(e.hash, new.mask), e.hash)
                  IN  Reinsert(old, i + 1,
                               [new EXCEPT !.fill = @ + 1, !.used = @ + 1,
                                           !.table[j] = e])

\* set_table_resize
set_table_resize(o, minused) ==
    LET n == NewSize(PySet_MINSIZE, minused)
    IN  Reinsert(o, 0, [fill |-> 0, used |-> 0, mask |-> n - 1,
                        table |-> [i \in 0 .. n - 1 |-> EmptyEntry]])

\* set.add(key): insert, then grow the table when two thirds are filled.
set_add(o, key) ==
    LET o2 == set_insert_key(o, key, hash(key))
    IN  IF ~(o2.used > o.used /\ o2.fill * 3 >= (o2.mask + 1) * 2) THEN o2
        ELSE set_table_resize(o2, IF o2.used > 50000 THEN o2.used * 2
                                  ELSE o2.used * 4)

\* set.remove(key) for a key that is in the set (both callers remove only
\* keys they have just read from, or added to, the set): the slot is left
\* holding the dummy key, its hash field untouched.
set_remove(o, key) ==
    LET i == set_lookkey(o, key, hash(key))
    IN  IF o.table[i].key = NULL \/ o.table[i].key = dummy THEN o
        ELSE [o EXCEPT !.used = @ - 1, !.table[i].key = dummy]

RECURSIVE AddAll(_, _, _)
AddAll(o, ks, n) ==
    IF n > Len(ks) THEN o ELSE AddAll(set_add(o, ks[n]), ks, n + 1)

\* set(keys): the keys added in order to a new set.
set_of(ks) == AddAll(NewSet, ks, 1)

RECURSIVE RemoveFrom(_, _)
\* for k in list(s): s.remove(k) -- list(s) holds the active keys in slot
\* order.
RemoveFrom(o, i) ==
    IF i > o.mask THEN o
    ELSE LET k == o.table[i].key
         IN  IF k = NULL \/ k = dummy THEN RemoveFrom(o, i + 1)
             ELSE RemoveFrom(set_remove(o, k), i + 1)

RemoveAll(o) == RemoveFrom(o, 0)

\* ------------------------------------------------------------ setinfo.py

RECURSIVE SlotScan(_, _, _)
SlotScan(o, key, i) ==
    IF i >= len(o) THEN -1
    ELSE IF o.table[i].key # NULL /\ o.table[i].key = key THEN i
    ELSE SlotScan(o, key, i + 1)

\* PySetObject.slot_of: the first slot whose key is `key`; -1 stands for
\* the KeyError raised when there is none.
slot_of(o, key) == SlotScan(o, key, 0)

\* PySetObject.slot_map: m[i] = entry.key for every slot whose key is not
\* null.
slot_map(o) ==
    [i \in {j \in 0 .. o.mask : o.table[j].key # NULL} |-> o.table[i].key]

\* ------------------------------------------------------------- the state

VARIABLES
    op,          \* the entry point that was called
    pc,          \* where the call stands
    err,         \* the exception a raised call ended with
    keys,        \* the caller's key list, the argument `keys`
    keys0,       \* the caller's key list as it was when the call was made
    key,         \* the argument `key`
    s,           \* the set object the call built (s, d, dummyset; viewed as o)
    final_slot,  \* the slot `key` is to end in
    slot,        \* _probe_steps' local `slot`
    slots,       \* _probe_steps' local `slots`
    m,           \* the mapping slot_map built
    written,     \* the table index of the latest obstacle write, -1 before any
    wild         \* the indices written beyond the end of the table

vars == <<op, pc, err, keys, keys0, key, s, final_slot, slot, slots, m,
          written, wild>>

\* The key lists an entry point is called with: distinct keys, in order of
\* insertion.
KeyLists ==
    UNION {{ks \in [1 .. n -> KeyUniverse] :
               \A a, b \in 1 .. n : a # b => ks[a] # ks[b]} : n \in 0 .. MaxKeys}

Last(q) == q[Len(q)]

Init ==
    /\ op = "none"
    /\ pc = "idle"
    /\ err = "none"
    /\ keys = <<>>
    /\ keys0 = <<>>
    /\ key = 0
    /\ s = NewSet
    /\ final_slot = 0
    /\ slot = 0
    /\ slots = <<>>
    /\ m = <<>>
    /\ written = -1
    /\ wild = {}

\* ------------------------------------------------------------ probe_steps

\* probe_steps, lines 142-144: s = set(keys); o = setobject(s);
\* final_slot = o.slot_of(key), which raises KeyError for a key not in keys.
ProbeStepsBuild ==
    /\ pc = "idle"
    /\ \E ks \in KeyLists, k \in KeyUniverse :
          LET o == set_of(ks)
              f == slot_of(o, k)
          IN  /\ op' = "probe_steps"
              /\ keys' = ks
              /\ keys0' = ks
              /\ key' = k
              /\ s' = o
              /\ IF f = -1
                 THEN /\ pc' = "raised"
                      /\ err' = "KeyError"
                      /\ UNCHANGED final_slot
                 ELSE /\ pc' = "empty"
                      /\ final_slot' = f
                      /\ UNCHANGED err
    /\ UNCHANGED <<slot, slots, m, written, wild>>

\* probe_steps, lines 148-150: every key removed from s, then the call of
\* _probe_steps(s, key, final_slot).
ProbeStepsEmpty ==
    /\ pc = "empty"
    /\ s' = RemoveAll(s)
    /\ pc' = "enter"
    /\ UNCHANGED <<op, err, keys, keys0, key, final_slot, slot, slots, m,
                   written, wild>>

\* -------------------------------------------------------------- _probe_steps

\* The first slot taken modulo the mask instead of masked.
first_slot_modulo(o, k) == hash(k) % o.mask

\* Line 115: the first slot, computed rather than searched.
first_slot(o, k) == BitAnd(hash(k), o.mask)

\* Lines 112-116.
ProbeEnter ==
    /\ pc = "enter"
    /\ slot' = first_slot(s, key)
    /\ slots' = <<first_slot(s, key)>>
    /\ pc' = "loop"
    /\ UNCHANGED <<op, err, keys, keys0, key, s, final_slot, m, written, wild>>

\* Lines 120-121: the index the obstacle is written at.
obstacle_index(o, sl, k) == IF sl = k THEN sl + len(o) ELSE sl

\* Lines 119-122 when the index is inside the table: the entry there is
\* overwritten with setentry(hash(key), None).
PlantObstacle ==
    /\ pc = "loop"
    /\ Last(slots) # final_slot
    /\ Len(slots) < MaxPath
    /\ LET i == obstacle_index(s, slot, key)
       IN  /\ i \in 0 .. s.mask
           /\ s' = [s EXCEPT !.table[i] = setentry(hash(key), None)]
           /\ slot' = i
           /\ written' = i
    /\ pc' = "insert"
    /\ UNCHANGED <<op, err, keys, keys0, key, final_slot, slots, m, wild>>

\* Lines 119-122 when the index is past the end of the table: o.table is a
\* ctypes pointer, the store is not bounds-checked and lands in whatever
\* memory follows the table.  One outcome: the store goes through, no slot
\* of the table changes, and the call goes on.
PlantObstacleWild ==
    /\ pc = "loop"
    /\ Last(slots) # final_slot
    /\ Len(slots) < MaxPath
    /\ LET i == obstacle_index(s, slot, key)
       IN  /\ i \notin 0 .. s.mask
           /\ slot' = i
           /\ written' = i
           /\ wild' = wild \cup {i}
    /\ pc' = "insert"
    /\ UNCHANGED <<op, err, keys, keys0, key, s, final_slot, slots, m>>

\* The other outcome of the same store: the process dies of it.
PlantObstacleCrash ==
    /\ pc = "loop"
    /\ Last(slots) # final_slot
    /\ Len(slots) < MaxPath
    /\ LET i == obstacle_index(s, slot, key)
       IN  /\ i \notin 0 .. s.mask
           /\ slot' = i
           /\ written' = i
           /\ wild' = wild \cup {i}
    /\ pc' = "crashed"
    /\ UNCHANGED <<op, err, keys, keys0, key, s, final_slot, slots, m>>

\* Lines 126-129: dummyset.add(key); slot = o.slot_of(key);
\* slots.append(slot); dummyset.remove(key).
ProbeInsert ==
    /\ pc = "insert"
    /\ LET o == set_add(s, key)
           f == slot_of(o, key)
       IN  /\ slot' = f
           /\ slots' = Append(slots, f)
           /\ s' = set_remove(o, key)
    /\ pc' = "loop"
    /\ UNCHANGED <<op, err, keys, keys0, key, final_slot, m, written, wild>>

\* Lines 119 and 132: the loop ends once the last slot is final_slot, and
\* slots is returned (by probe_steps too, line 150).
ProbeReturn ==
    /\ pc = "loop"
    /\ Last(slots) = final_slot
    /\ pc' = "returned"
    /\ UNCHANGED <<op, err, keys, keys0, key, s, final_slot, slot, slots, m,
                   written, wild>>

\* ---------------------------------------------------------- probe_all_steps

\* Line 162: d = set.fromkeys(keys).  The type set has no attribute
\* fromkeys (dict has), so the attribute lookup raises AttributeError and
\* the call ends there, for every argument.
ProbeAllSteps ==
    /\ pc = "idle"
    /\ \E ks \in KeyLists :
          /\ keys' = ks
          /\ keys0' = ks
    /\ op' = "probe_all_steps"
    /\ pc' = "raised"
    /\ err' = "AttributeError"
    /\ UNCHANGED <<key, s, final_slot, slot, slots, m, written, wild>>

\* ------------------------------------------------------------------ slot_map

\* setobject(set(keys)).slot_map(): the mapping slot_map returns for a set
\* built from the keys.
SlotMap ==
    /\ pc = "idle"
    /\ \E ks \in KeyLists :
          /\ keys' = ks
          /\ keys0' = ks
          /\ s' = set_of(ks)
          /\ m' = slot_map(set_of(ks))
    /\ op' = "slot_map"
    /\ pc' = "returned"
    /\ UNCHANGED <<err, key, final_slot, slot, slots, written, wild>>

Next ==
    \/ ProbeStepsBuild
    \/ ProbeStepsEmpty
    \/ ProbeEnter
    \/ PlantObstacle
    \/ PlantObstacleWild
    \/ PlantObstacleCrash
    \/ ProbeInsert
    \/ ProbeReturn
    \/ ProbeAllSteps
    \/ SlotMap

Spec == Init /\ [][Next]_vars

\* ------------------------------------------------------------------ claims

\* The keys of a key list.
Range(q) == {q[i] : i \in 1 .. Len(q)}

\* A call has ended, by returning or by raising.
Ended == pc \in {"returned", "raised"}

\* The call is inside _probe_steps.
InProbeSteps == op = "probe_steps" /\ pc \in {"loop", "insert", "returned"}

\* C1: for every list of distinct keys, probe_all_steps returns a mapping
\* whose domain is exactly the keys, each key mapped to a path that ends at
\* the slot the key has in the set built from the keys.
C1_ProbeAllMapsEveryKeyToItsSlot ==
    (op = "probe_all_steps" /\ Ended /\ keys # <<>>) =>
        /\ pc = "returned"
        /\ DOMAIN m = Range(keys)
        /\ \A k \in Range(keys) : Last(m[k]) = slot_of(set_of(keys), k)

\* C3: _probe_steps, called for a key and the slot the key had, returns a
\* path of 1 to len(o) slots.  Every iteration appends one slot, so a call
\* that is to return such a path never holds more than len(o) slots.
C3_PathWithinSlotCount ==
    InProbeSteps => (Len(slots) >= 1 /\ Len(slots) <= len(s))

\* C4: once _probe_steps has gone through more than len(o) iterations (one
\* per slot appended after the first) and the last slot is still not
\* final_slot, the call has failed with InvariantError.
C4_TooManyIterationsRaise ==
    (op = "probe_steps" /\ Len(slots) - 1 > len(s)
                        /\ Last(slots) # final_slot) =>
        (pc = "raised" /\ err = "InvariantError")

\* C5: probe_steps and probe_all_steps leave the caller's key list as it
\* was, and every write they make lands in a slot of the set they built.
C5_OnlyTheCopyIsWritten ==
    (op \in {"probe_steps", "probe_all_steps"}) =>
        (keys = keys0 /\ wild = {})

\* C6: a path returned by _probe_steps is not empty, starts at
\* hash(key) & mask and ends at final_slot; when these two are the same
\* slot the loop body never ran and the path is that one slot.
C6_ReturnedPathEnds ==
    (op = "probe_steps" /\ pc = "returned") =>
        /\ Len(slots) >= 1
        /\ slots[1] = BitAnd(hash(key), s.mask)
        /\ Last(slots) = final_slot
        /\ BitAnd(hash(key), s.mask) = final_slot =>
               (slots = <<final_slot>> /\ written = -1)

\* A path of three slots has been returned.
C6_Witness ==
    op = "probe_steps" /\ pc = "returned" /\ Len(slots) = 3 /\ written # -1

\* C7: for keys that all share one first slot of an 8-slot table (1, 9, 17),
\* probe_all_steps returns one path per key, every path starts at the shared
\* slot, and a key inserted later has a strictly longer path.
C7_CollidingKeysGetLongerPaths ==
    (/\ op = "probe_all_steps"
     /\ Ended
     /\ Len(keys) \in 2 .. 5
     /\ \A i \in 1 .. Len(keys) :
            BitAnd(hash(keys[i]), PySet_MINSIZE - 1)
                = BitAnd(hash(keys[1]), PySet_MINSIZE - 1)) =>
        /\ pc = "returned"
        /\ DOMAIN m = Range(keys)
        /\ \A i \in 1 .. Len(keys) :
               m[keys[i]][1] = BitAnd(hash(keys[1]), PySet_MINSIZE - 1)
        /\ \A i, j \in 1 .. Len(keys) :
               i < j => Len(m[keys[i]]) < Len(m[keys[j]])

\* C9: while _probe_steps runs, the obstacle planted for every slot of the
\* path but the last is still in the table, and no slot occurs twice in the
\* path.
C9_ObstaclesStayAndSlotsAreNew ==
    (op = "probe_steps" /\ pc \in {"loop", "returned"}) =>
        /\ \A i \in 1 .. Len(slots) - 1 : s.table[slots[i]].key = None
        /\ \A i, j \in 1 .. Len(slots) : i # j => slots[i] # slots[j]

\* C10: every obstacle write of _probe_steps is at an index within
\* 0 .. len(o) - 1, and that index is the slot last appended to the path.
C10_ObstacleWriteInRange ==
    (op = "probe_steps" /\ written # -1) =>
        /\ written \in 0 .. len(s) - 1
        /\ pc = "insert" => written = Last(slots)

====
